---- MODULE Spec2Model ----
(***************************************************************************)
(* Graph traversal and topological ordering exercises                      *)
(* (src/code/graph_algorithms).  A graph is an adjacency structure: a      *)
(* function from vertex index 0..n-1 to the ordered sequence of its        *)
(* neighbours.  Python lists are modelled as TLA+ sequences (1-based);     *)
(* vertex indices stay 0-based as in the source.                           *)
(*                                                                         *)
(* The undirected files 01/02 are line-for-line the directed files 03/04   *)
(* with "undirected" in the names; they differ only in how __main__ builds *)
(* the graph (each edge appended to both endpoints' lists).  The traversal *)
(* operators below are therefore modelled once, from 03/04, and applied to *)
(* graphs built either way.                                                *)
(***************************************************************************)
EXTENDS Integers, Sequences, FiniteSets, TLC

\* Bounds of the model: number of vertices, length of a directed edge list,
\* length of an undirected edge list.
MaxN == 4
MaxEdges == 3
MaxUndirectedEdges == 2

n == MaxN
V == 0 .. (n - 1)

\* Colours of topological_sort_dfs.
WHITE == 0
GRAY == 1
BLACK == 2

VARIABLES
    pc,               \* position inside the running program
    graph,            \* the adjacency structure handed to every call
    start,            \* start vertex of the single-source calls
    order,            \* bfs: local order
    visited,          \* bfs: local visited
    queue,            \* bfs: local deque; kahn: local queue list
    discovered_from,  \* history: the vertex whose scan enqueued u (-1: none)
    color,            \* topological_sort_dfs: local color
    result,           \* topological_sort_dfs / topological_sort_kahn: local result
    frames,           \* topological_sort_dfs: active calls of the closure dfs
    for_start,        \* topological_sort_dfs: loop variable of "for start in range(n)"
    returning_false,  \* topological_sort_dfs: a "return False" is travelling up
    in_degree,        \* topological_sort_kahn: local in_degree
    idx,              \* topological_sort_kahn: local idx
    out               \* values returned so far, by function

vars == <<pc, graph, start, order, visited, queue, discovered_from,
          color, result, frames, for_start, returning_false, in_degree, idx, out>>

---------------------------------------------------------------------------
\* Graph construction, as the __main__ blocks do it.

EmptyGraph == [v \in V |-> <<>>]

\* 03_bfs_directed.py 52-54: for a, b in edges: graph[a].append(b)
RECURSIVE build_directed(_, _)
build_directed(edges, g) ==
    IF edges = <<>> THEN g
    ELSE LET a == Head(edges)[1]
             b == Head(edges)[2]
         IN build_directed(Tail(edges), [g EXCEPT ![a] = Append(@, b)])

\* 01_bfs_undirected.py 52-55: graph[a].append(b); graph[b].append(a)
RECURSIVE build_undirected(_, _)
build_undirected(edges, g) ==
    IF edges = <<>> THEN g
    ELSE LET a == Head(edges)[1]
             b == Head(edges)[2]
             g1 == [g EXCEPT ![a] = Append(@, b)]
         IN build_undirected(Tail(edges), [g1 EXCEPT ![b] = Append(@, a)])

EdgeLists(k) == UNION {[1 .. m -> V \X V] : m \in 0 .. k}

DirectedGraphs == {build_directed(es, EmptyGraph) : es \in EdgeLists(MaxEdges)}

UndirectedGraphs ==
    {build_undirected(es, EmptyGraph) : es \in EdgeLists(MaxUndirectedEdges)}

Graphs == DirectedGraphs \cup UndirectedGraphs

---------------------------------------------------------------------------
\* Returned values.  Optional[List[int]]: either a list or None.

NotReturned == [returned |-> FALSE, is_none |-> FALSE, val |-> <<>>]
ReturnList(seq) == [returned |-> TRUE, is_none |-> FALSE, val |-> seq]
ReturnNone == [returned |-> TRUE, is_none |-> TRUE, val |-> <<>>]

Functions == {"bfs", "dfs_recursive", "dfs_iterative", "bfs_all", "dfs_all",
              "topo_dfs", "topo_kahn"}

AllFalse == [v \in V |-> FALSE]

---------------------------------------------------------------------------
\* BFS, 03_bfs_directed.py (= 01_bfs_undirected.py).

\* lines 10-13: order = [], visited = [False]*n, queue = deque([start]),
\* visited[start] = True
\* Faulty variant of bfs_init: line 13 (visited[start] = True) left out.
bfs_init_no_mark(s) ==
    [order |-> <<>>, visited |-> AllFalse, queue |-> <<s>>]

bfs_init(s) ==
    [order |-> <<>>, visited |-> [AllFalse EXCEPT ![s] = TRUE], queue |-> <<s>>]

\* lines 18-21: for u in graph[v]: if not visited[u]: visited[u] = True;
\* queue.append(u)
RECURSIVE bfs_scan(_, _)
bfs_scan(nbrs, st) ==
    IF nbrs = <<>> THEN st
    ELSE LET u == Head(nbrs)
         IN IF ~st.visited[u]
            THEN bfs_scan(Tail(nbrs),
                          [st EXCEPT !.visited[u] = TRUE,
                                     !.queue = Append(@, u)])
            ELSE bfs_scan(Tail(nbrs), st)

\* The vertex the loop body takes from the queue: queue.popleft() (line 16).
\* Faulty variant of bfs_pop: pop() instead of popleft().
bfs_pop_right(q) == [v |-> q[Len(q)], rest |-> SubSeq(q, 1, Len(q) - 1)]

bfs_pop(q) == [v |-> Head(q), rest |-> Tail(q)]

\* lines 16-21: one iteration of "while queue"
bfs_body(g, st) ==
    LET p == bfs_pop(st.queue)
    IN bfs_scan(g[p.v], [st EXCEPT !.order = Append(@, p.v), !.queue = p.rest])

\* lines 15-21: while queue
RECURSIVE bfs_while(_, _)
bfs_while(g, st) ==
    IF st.queue = <<>> THEN st ELSE bfs_while(g, bfs_body(g, st))

\* lines 5-23
bfs_directed(g, s) == bfs_while(g, bfs_init(s)).order

\* lines 33-44 of bfs_directed_all_reachable: one iteration of
\* "for start in range(n)"
\* Faulty variant of bfs_all_iteration: lines 34-35 (skip a visited start)
\* left out.
bfs_all_iteration_no_skip(g, s, st) ==
    bfs_while(g, [st EXCEPT !.visited[s] = TRUE, !.queue = <<s>>])

bfs_all_iteration(g, s, st) ==
    IF st.visited[s] THEN st
    ELSE bfs_while(g, [st EXCEPT !.visited[s] = TRUE, !.queue = <<s>>])

\* The order in which "for start in range(n)" (line 33) takes its values.
\* Faulty variant of bfs_all_range: the starts taken from n-1 down to 0.
bfs_all_range_descending == [i \in 1 .. n |-> n - i]

bfs_all_range == [i \in 1 .. n |-> i - 1]

RECURSIVE bfs_all_for(_, _, _)
bfs_all_for(g, i, st) ==
    IF i > n THEN st
    ELSE bfs_all_for(g, i + 1, bfs_all_iteration(g, bfs_all_range[i], st))

\* lines 26-46
bfs_directed_all_reachable(g) ==
    bfs_all_for(g, 1, [order |-> <<>>, visited |-> AllFalse, queue |-> <<>>]).order

---------------------------------------------------------------------------
\* DFS, 04_dfs_directed.py (= 02_dfs_undirected.py).
\* The traversal state threaded through the calls is [visited, order].

\* lines 4-14: dfs_directed_recursive(graph, start, visited, order);
\* dfs_recursive_for is its "for u in graph[start]" from position i.
RECURSIVE dfs_directed_recursive(_, _, _)
RECURSIVE dfs_recursive_for(_, _, _, _)
dfs_directed_recursive(g, s, st) ==
    dfs_recursive_for(g, s, 1,
        [st EXCEPT !.visited[s] = TRUE, !.order = Append(@, s)])

dfs_recursive_for(g, s, i, st) ==
    IF i > Len(g[s]) THEN st
    ELSE LET u == g[s][i]
         IN IF ~st.visited[u]
            THEN dfs_recursive_for(g, s, i + 1, dfs_directed_recursive(g, u, st))
            ELSE dfs_recursive_for(g, s, i + 1, st)

\* The order in which the iterative form's push loop walks graph[v]:
\* reversed(graph[v]) (line 32).
\* Faulty variant of dfs_push_order: graph[v] walked without reversed().
dfs_push_order_forward(nbrs) == nbrs

dfs_push_order(nbrs) == [i \in 1 .. Len(nbrs) |-> nbrs[Len(nbrs) + 1 - i]]

\* lines 32-34: for u in reversed(graph[v]): if not visited[u]: stack.append(u)
RECURSIVE dfs_push(_, _, _)
dfs_push(nbrs, vis, stack) ==
    IF nbrs = <<>> THEN stack
    ELSE dfs_push(Tail(nbrs), vis,
                  IF ~vis[Head(nbrs)] THEN Append(stack, Head(nbrs)) ELSE stack)

\* lines 27-34: one iteration of "while stack"; stack.pop() takes the last
\* element.
\* Faulty variant of dfs_iterative_body: lines 28-29 (discard a visited
\* vertex) left out.
dfs_iterative_body_no_check(g, st) ==
    LET v == st.stack[Len(st.stack)]
        rest == SubSeq(st.stack, 1, Len(st.stack) - 1)
        vis == [st.visited EXCEPT ![v] = TRUE]
    IN [order |-> Append(st.order, v),
        visited |-> vis,
        stack |-> dfs_push(dfs_push_order(g[v]), vis, rest)]

dfs_iterative_body(g, st) ==
    LET v == st.stack[Len(st.stack)]
        rest == SubSeq(st.stack, 1, Len(st.stack) - 1)
    IN IF st.visited[v] THEN [st EXCEPT !.stack = rest]
       ELSE LET vis == [st.visited EXCEPT ![v] = TRUE]
            IN [order |-> Append(st.order, v),
                visited |-> vis,
                stack |-> dfs_push(dfs_push_order(g[v]), vis, rest)]

RECURSIVE dfs_iterative_while(_, _)
dfs_iterative_while(g, st) ==
    IF st.stack = <<>> THEN st
    ELSE dfs_iterative_while(g, dfs_iterative_body(g, st))

\* lines 17-36
dfs_directed_iterative(g, s) ==
    dfs_iterative_while(g,
        [order |-> <<>>, visited |-> AllFalse, stack |-> <<s>>]).order

\* lines 46-51 of dfs_directed_all_components: the closure dfs(v) over the
\* enclosing visited and order; dfs_closure_for is its "for u in graph[v]".
RECURSIVE dfs_closure(_, _, _)
RECURSIVE dfs_closure_for(_, _, _, _)
dfs_closure(g, v, st) ==
    dfs_closure_for(g, v, 1,
        [st EXCEPT !.visited[v] = TRUE, !.order = Append(@, v)])

dfs_closure_for(g, v, i, st) ==
    IF i > Len(g[v]) THEN st
    ELSE LET u == g[v][i]
         IN IF ~st.visited[u]
            THEN dfs_closure_for(g, v, i + 1, dfs_closure(g, u, st))
            ELSE dfs_closure_for(g, v, i + 1, st)

\* lines 53-55: for start in range(n): if not visited[start]: dfs(start)
dfs_all_iteration(g, s, st) ==
    IF ~st.visited[s] THEN dfs_closure(g, s, st) ELSE st

RECURSIVE dfs_all_for(_, _, _)
dfs_all_for(g, s, st) ==
    IF s = n THEN st ELSE dfs_all_for(g, s + 1, dfs_all_iteration(g, s, st))

\* lines 39-57
dfs_directed_all_components(g) ==
    dfs_all_for(g, 0, [visited |-> AllFalse, order |-> <<>>]).order

---------------------------------------------------------------------------
\* Topological sort, 05_topological_sort.py.

\* lines 35-37: in_degree[u] += 1 for every adjacency entry u
RECURSIVE count_entries(_, _)
count_entries(nbrs, u) ==
    IF nbrs = <<>> THEN 0
    ELSE (IF Head(nbrs) = u THEN 1 ELSE 0) + count_entries(Tail(nbrs), u)

RECURSIVE kahn_in_degree_from(_, _, _)
kahn_in_degree_from(g, v, u) ==
    IF v = n THEN 0
    ELSE count_entries(g[v], u) + kahn_in_degree_from(g, v + 1, u)

kahn_in_degree(g) == [u \in V |-> kahn_in_degree_from(g, 0, u)]

\* line 39: queue = [v for v in range(n) if in_degree[v] == 0]
RECURSIVE kahn_seed_from(_, _)
kahn_seed_from(deg, v) ==
    IF v = n THEN <<>>
    ELSE (IF deg[v] = 0 THEN <<v>> ELSE <<>>) \o kahn_seed_from(deg, v + 1)

\* lines 47-50: for u in graph[v]: in_degree[u] -= 1; if in_degree[u] == 0:
\* queue.append(u)
\* Faulty variant of kahn_scan: the loop body left out.
kahn_scan_no_decrement(nbrs, st) == st

RECURSIVE kahn_scan(_, _)
kahn_scan(nbrs, st) ==
    IF nbrs = <<>> THEN st
    ELSE LET u == Head(nbrs)
             d == st.in_degree[u] - 1
         IN kahn_scan(Tail(nbrs),
                [in_degree |-> [st.in_degree EXCEPT ![u] = d],
                 queue |-> IF d = 0 THEN Append(st.queue, u) ELSE st.queue])

\* line 15: the neighbour is on the current recursion path
\* Faulty variant of topo_dfs_sees_cycle: lines 15-16 left out.
topo_dfs_sees_cycle_never(c) == FALSE

topo_dfs_sees_cycle(c) == c = GRAY

\* line 13: color[v] = GRAY
topo_dfs_color_on_entry(col, v) == [col EXCEPT ![v] = GRAY]

\* line 19: color[v] = BLACK
\* Faulty variant of topo_dfs_color_on_exit: line 19 left out.
topo_dfs_color_on_exit_forgotten(col, v) == col

topo_dfs_color_on_exit(col, v) == [col EXCEPT ![v] = BLACK]

\* line 27: result[::-1]
\* Faulty variant of reversed_list: result returned as it is.
reversed_list_not_reversed(seq) == seq

reversed_list(seq) == [i \in 1 .. Len(seq) |-> seq[Len(seq) + 1 - i]]

---------------------------------------------------------------------------
\* The state machine.  Each behaviour is one run of the calls the __main__
\* blocks make, on a graph (and a start vertex) drawn from the bounded sets:
\* the single-source traversals (InitSingle), the whole-graph traversals
\* (InitAll) or the two topological sorts (InitTopo).  bfs,
\* topological_sort_dfs and topological_sort_kahn are stepped through their
\* loops; the other functions are applied whole.

Locals ==
    /\ order = <<>>
    /\ visited = AllFalse
    /\ queue = <<>>
    /\ discovered_from = [v \in V |-> -1]
    /\ color = [v \in V |-> WHITE]
    /\ result = <<>>
    /\ frames = <<>>
    /\ for_start = 0
    /\ returning_false = FALSE
    /\ in_degree = [v \in V |-> 0]
    /\ idx = 0
    /\ out = [f \in Functions |-> NotReturned]

InitSingle ==
    /\ graph \in Graphs
    /\ start \in V
    /\ pc = "bfs_call"
    /\ Locals

InitAll ==
    /\ graph \in Graphs
    /\ start = 0
    /\ pc = "bfs_all_call"
    /\ Locals

InitTopo ==
    /\ graph \in DirectedGraphs
    /\ start = 0
    /\ pc = "topo_dfs_call"
    /\ Locals

Init == InitSingle \/ InitAll \/ InitTopo

bfs_vars == <<order, visited, queue, discovered_from>>
topo_dfs_vars == <<color, frames, for_start, returning_false>>
kahn_vars == <<in_degree, idx>>

\* ---- program "single": 04_dfs_directed.py 67-71 and 03_bfs_directed.py 56

\* bfs_directed lines 10-13
bfs_enter ==
    /\ pc = "bfs_call"
    /\ LET st == bfs_init(start)
       IN /\ order' = st.order
          /\ visited' = st.visited
          /\ queue' = st.queue
    /\ pc' = "bfs_while"
    /\ UNCHANGED <<graph, start, discovered_from, result, out>>
    /\ UNCHANGED <<topo_dfs_vars, kahn_vars>>

\* bfs_directed lines 15-21, one iteration; discovered_from records, for
\* every vertex this iteration marks visited, the vertex being scanned.
bfs_step ==
    /\ pc = "bfs_while"
    /\ queue # <<>>
    /\ LET st == bfs_body(graph, [order |-> order, visited |-> visited,
                                  queue |-> queue])
           v == st.order[Len(st.order)]
       IN /\ order' = st.order
          /\ visited' = st.visited
          /\ queue' = st.queue
          /\ discovered_from' =
                [u \in V |-> IF st.visited[u] /\ ~visited[u] THEN v
                             ELSE discovered_from[u]]
    /\ UNCHANGED <<pc, graph, start, result, out>>
    /\ UNCHANGED <<topo_dfs_vars, kahn_vars>>

\* bfs_directed line 23
bfs_return ==
    /\ pc = "bfs_while"
    /\ queue = <<>>
    /\ out' = [out EXCEPT !["bfs"] = ReturnList(order)]
    /\ pc' = "dfs_recursive_call"
    /\ UNCHANGED <<graph, start, result>>
    /\ UNCHANGED <<bfs_vars, topo_dfs_vars, kahn_vars>>

\* 04_dfs_directed.py 67-69: visited = [False]*n; order_rec = [];
\* dfs_directed_recursive(graph, start, visited, order_rec)
dfs_recursive_call ==
    /\ pc = "dfs_recursive_call"
    /\ out' = [out EXCEPT !["dfs_recursive"] =
                 ReturnList(dfs_directed_recursive(graph, start,
                     [visited |-> AllFalse, order |-> <<>>]).order)]
    /\ pc' = "dfs_iterative_call"
    /\ UNCHANGED <<graph, start, result>>
    /\ UNCHANGED <<bfs_vars, topo_dfs_vars, kahn_vars>>

\* 04_dfs_directed.py 71: dfs_directed_iterative(graph, start, n)
dfs_iterative_call ==
    /\ pc = "dfs_iterative_call"
    /\ out' = [out EXCEPT !["dfs_iterative"] =
                 ReturnList(dfs_directed_iterative(graph, start))]
    /\ pc' = "done"
    /\ UNCHANGED <<graph, start, result>>
    /\ UNCHANGED <<bfs_vars, topo_dfs_vars, kahn_vars>>

\* ---- program "all": 03_bfs_directed.py 57 and 04_dfs_directed.py 72

bfs_all_call ==
    /\ pc = "bfs_all_call"
    /\ out' = [out EXCEPT !["bfs_all"] =
                 ReturnList(bfs_directed_all_reachable(graph))]
    /\ pc' = "dfs_all_call"
    /\ UNCHANGED <<graph, start, result>>
    /\ UNCHANGED <<bfs_vars, topo_dfs_vars, kahn_vars>>

dfs_all_call ==
    /\ pc = "dfs_all_call"
    /\ out' = [out EXCEPT !["dfs_all"] =
                 ReturnList(dfs_directed_all_components(graph))]
    /\ pc' = "done"
    /\ UNCHANGED <<graph, start, result>>
    /\ UNCHANGED <<bfs_vars, topo_dfs_vars, kahn_vars>>

\* ---- program "topo": 05_topological_sort.py 62-63

\* topological_sort_dfs lines 9-10
topo_dfs_enter ==
    /\ pc = "topo_dfs_call"
    /\ color' = [v \in V |-> WHITE]
    /\ result' = <<>>
    /\ frames' = <<>>
    /\ for_start' = 0
    /\ returning_false' = FALSE
    /\ pc' = "topo_dfs_for"
    /\ UNCHANGED <<graph, start, out>>
    /\ UNCHANGED <<bfs_vars, kahn_vars>>

\* lines 23-24 with color[start] == WHITE: dfs(start) is called; the callee
\* runs line 13.
topo_dfs_for_call ==
    /\ pc = "topo_dfs_for"
    /\ for_start < n
    /\ color[for_start] = WHITE
    /\ color' = topo_dfs_color_on_entry(color, for_start)
    /\ frames' = <<[v |-> for_start, i |-> 1]>>
    /\ pc' = "topo_dfs_in"
    /\ UNCHANGED <<graph, start, result, for_start, returning_false, out>>
    /\ UNCHANGED <<bfs_vars, kahn_vars>>

\* lines 23-24 with color[start] != WHITE: next start
topo_dfs_for_skip ==
    /\ pc = "topo_dfs_for"
    /\ for_start < n
    /\ color[for_start] # WHITE
    /\ for_start' = for_start + 1
    /\ UNCHANGED <<pc, graph, start, result, color, frames,
                   returning_false, out>>
    /\ UNCHANGED <<bfs_vars, kahn_vars>>

\* line 27: the loop is over, return result[::-1]
topo_dfs_return_result ==
    /\ pc = "topo_dfs_for"
    /\ for_start = n
    /\ out' = [out EXCEPT !["topo_dfs"] = ReturnList(reversed_list(result))]
    /\ pc' = "kahn_call"
    /\ UNCHANGED <<graph, start, result>>
    /\ UNCHANGED <<bfs_vars, topo_dfs_vars, kahn_vars>>

\* lines 14-18, one iteration of "for u in graph[v]" in the innermost call
topo_dfs_neighbor ==
    /\ pc = "topo_dfs_in"
    /\ ~returning_false
    /\ frames # <<>>
    /\ LET top == frames[Len(frames)]
       IN /\ top.i <= Len(graph[top.v])
          /\ LET u == graph[top.v][top.i]
             IN IF topo_dfs_sees_cycle(color[u])
                THEN \* line 16: return False
                     /\ frames' = SubSeq(frames, 1, Len(frames) - 1)
                     /\ returning_false' = TRUE
                     /\ UNCHANGED color
                ELSE IF color[u] = WHITE
                THEN \* line 17 calls dfs(u); the callee runs line 13
                     /\ color' = topo_dfs_color_on_entry(color, u)
                     /\ frames' = Append(frames, [v |-> u, i |-> 1])
                     /\ UNCHANGED returning_false
                ELSE \* u is BLACK: next neighbour
                     /\ frames' = [frames EXCEPT ![Len(frames)].i = top.i + 1]
                     /\ UNCHANGED <<color, returning_false>>
    /\ UNCHANGED <<pc, graph, start, result, for_start, out>>
    /\ UNCHANGED <<bfs_vars, kahn_vars>>

\* lines 19-21: the loop of the innermost call is over; it returns True and
\* its caller goes on with its next neighbour (or the next start).
topo_dfs_finish ==
    /\ pc = "topo_dfs_in"
    /\ ~returning_false
    /\ frames # <<>>
    /\ LET top == frames[Len(frames)]
           rest == SubSeq(frames, 1, Len(frames) - 1)
       IN /\ top.i > Len(graph[top.v])
          /\ color' = topo_dfs_color_on_exit(color, top.v)
          /\ result' = Append(result, top.v)
          /\ IF rest = <<>>
             THEN /\ frames' = rest
                  /\ for_start' = for_start + 1
                  /\ pc' = "topo_dfs_for"
             ELSE /\ frames' = [rest EXCEPT ![Len(rest)].i = @ + 1]
                  /\ UNCHANGED <<for_start, pc>>
    /\ UNCHANGED <<graph, start, returning_false, out>>
    /\ UNCHANGED <<bfs_vars, kahn_vars>>

\* line 18: the callee returned False, so this call returns False too
topo_dfs_propagate ==
    /\ pc = "topo_dfs_in"
    /\ returning_false
    /\ frames # <<>>
    /\ frames' = SubSeq(frames, 1, Len(frames) - 1)
    /\ UNCHANGED <<pc, graph, start, result, color, for_start,
                   returning_false, out>>
    /\ UNCHANGED <<bfs_vars, kahn_vars>>

\* line 25: dfs(start) returned False, return None
topo_dfs_return_none ==
    /\ pc = "topo_dfs_in"
    /\ returning_false
    /\ frames = <<>>
    /\ out' = [out EXCEPT !["topo_dfs"] = ReturnNone]
    /\ pc' = "kahn_call"
    /\ UNCHANGED <<graph, start, result>>
    /\ UNCHANGED <<bfs_vars, topo_dfs_vars, kahn_vars>>

\* topological_sort_kahn lines 34-41
kahn_enter ==
    /\ pc = "kahn_call"
    /\ in_degree' = kahn_in_degree(graph)
    /\ queue' = kahn_seed_from(kahn_in_degree(graph), 0)
    /\ result' = <<>>
    /\ idx' = 0
    /\ pc' = "kahn_while"
    /\ UNCHANGED <<graph, start, order, visited, discovered_from, out>>
    /\ UNCHANGED topo_dfs_vars

\* lines 43-50, one iteration of "while idx < len(queue)"
kahn_step ==
    /\ pc = "kahn_while"
    /\ idx < Len(queue)
    /\ LET v == queue[idx + 1]
           st == kahn_scan(graph[v], [in_degree |-> in_degree, queue |-> queue])
       IN /\ idx' = idx + 1
          /\ result' = Append(result, v)
          /\ in_degree' = st.in_degree
          /\ queue' = st.queue
    /\ UNCHANGED <<pc, graph, start, order, visited, discovered_from, out>>
    /\ UNCHANGED topo_dfs_vars

\* line 52: return result if len(result) == n else None
kahn_return ==
    /\ pc = "kahn_while"
    /\ idx >= Len(queue)
    /\ out' = [out EXCEPT !["topo_kahn"] =
                 IF Len(result) = n THEN ReturnList(result) ELSE ReturnNone]
    /\ pc' = "done"
    /\ UNCHANGED <<graph, start, result>>
    /\ UNCHANGED <<bfs_vars, topo_dfs_vars, kahn_vars>>

NextSingle ==
    \/ bfs_enter
    \/ bfs_step
    \/ bfs_return
    \/ dfs_recursive_call
    \/ dfs_iterative_call

NextAll ==
    \/ bfs_all_call
    \/ dfs_all_call

NextTopo ==
    \/ topo_dfs_enter
    \/ topo_dfs_for_call
    \/ topo_dfs_for_skip
    \/ topo_dfs_return_result
    \/ topo_dfs_neighbor
    \/ topo_dfs_finish
    \/ topo_dfs_propagate
    \/ topo_dfs_return_none
    \/ kahn_enter
    \/ kahn_step
    \/ kahn_return

Next == NextSingle \/ NextAll \/ NextTopo

SpecSingle == InitSingle /\ [][NextSingle]_vars
SpecAll == InitAll /\ [][NextAll]_vars
SpecTopo == InitTopo /\ [][NextTopo]_vars
Spec == Init /\ [][Next]_vars

---------------------------------------------------------------------------
\* Graph-theoretic vocabulary of the properties (defined from the edge
\* relation alone, independently of the traversals).

Succ(g, v) == {g[v][i] : i \in 1 .. Len(g[v])}
Pred(g, v) == {p \in V : v \in Succ(g, p)}
Nbrs(g, v) == Succ(g, v) \cup Pred(g, v)

RECURSIVE Closure(_, _)
Closure(g, S) ==
    LET T == S \cup UNION {Succ(g, v) : v \in S}
    IN IF T = S THEN S ELSE Closure(g, T)

\* Vertices reachable from s along outgoing entries, s included.
Reachable(g, s) == Closure(g, {s})

\* Vertices reachable from s by a path of at least one edge.
ReachablePlus(g, s) == Closure(g, Succ(g, s))

OnCycle(g, v) == v \in ReachablePlus(g, v)
HasCycle(g) == \E v \in V : OnCycle(g, v)

\* Shortest-path distance from s (n when unreachable).
RECURSIVE DistFrom(_, _, _, _)
DistFrom(g, layer, seen, k) ==
    IF layer = {} THEN [v \in V |-> n]
    ELSE LET nxt == UNION {Succ(g, v) : v \in layer} \ seen
             rest == DistFrom(g, nxt, seen \cup nxt, k + 1)
         IN [v \in V |-> IF v \in layer THEN k ELSE rest[v]]

Dist(g, s) == DistFrom(g, {s}, {s}, 0)

\* Connected component of v, edges taken regardless of direction.
RECURSIVE UndirectedClosure(_, _)
UndirectedClosure(g, S) ==
    LET T == S \cup UNION {Nbrs(g, v) : v \in S}
    IN IF T = S THEN S ELSE UndirectedClosure(g, T)

Component(g, v) == UndirectedClosure(g, {v})

Symmetric(g) == \A a, b \in V : b \in Succ(g, a) <=> a \in Succ(g, b)

Min(S) == CHOOSE x \in S : \A y \in S : x <= y

Elems(seq) == {seq[i] : i \in 1 .. Len(seq)}

\* seq lists exactly the members of S, each once.
EachOnce(seq, S) == Elems(seq) = S /\ Len(seq) = Cardinality(S)

Pos(seq, v) == CHOOSE i \in 1 .. Len(seq) : seq[i] = v

---------------------------------------------------------------------------
\* C1: each single-source traversal (bfs, dfs_iterative, dfs_recursive from
\* an all-false visited array and an empty order) outputs exactly the
\* vertices reachable from start along outgoing adjacency entries, each
\* exactly once, so its length is the number of reachable vertices.
C1_ReachableExactlyOnce ==
    \A f \in {"bfs", "dfs_recursive", "dfs_iterative"} :
        out[f].returned => EachOnce(out[f].val, Reachable(graph, start))

\* All three traversals have returned on a graph where some but not all
\* vertices are reachable from start and one of them is reachable twice over.
C1_Witness ==
    /\ pc = "done"
    /\ out["dfs_iterative"].returned
    /\ Cardinality(Reachable(graph, start)) > 1
    /\ Reachable(graph, start) # V
    /\ \E v \in Reachable(graph, start) :
          Cardinality(Pred(graph, v) \cap Reachable(graph, start)) > 1

\* seq places a before b for every edge (a, b) of g.
RespectsEdges(seq, g) ==
    \A a \in V : \A b \in Succ(g, a) :
        /\ a \in Elems(seq)
        /\ b \in Elems(seq)
        /\ Pos(seq, a) < Pos(seq, b)

HasDuplicateEdge(g) == \E a \in V : Len(g[a]) > Cardinality(Succ(g, a))

\* C2: on a directed acyclic graph (duplicate edges allowed) both
\* topological sorts return a sequence, not None, that contains every vertex
\* 0..n-1 exactly once and places a before b for every edge (a, b).
C2_ValidOrderOnDag ==
    ~HasCycle(graph) =>
        \A f \in {"topo_dfs", "topo_kahn"} :
            out[f].returned =>
                /\ ~out[f].is_none
                /\ EachOnce(out[f].val, V)
                /\ RespectsEdges(out[f].val, graph)

\* Both sorts have returned on a DAG with a duplicate edge and a path of two
\* edges, and they returned different orders.
C2_Witness ==
    /\ pc = "done"
    /\ out["topo_kahn"].returned
    /\ ~HasCycle(graph)
    /\ HasDuplicateEdge(graph)
    /\ \E a \in V : \E b \in Succ(graph, a) : Succ(graph, b) # {}
    /\ out["topo_dfs"].val # out["topo_kahn"].val

\* C3: on every directed graph (self-loops and duplicate edges included)
\* topo_sort_dfs returns None iff topo_sort_kahn returns None, both exactly
\* when the graph has a directed cycle, and a returned sequence is never
\* partial (it lists all n vertices).
C3_AgreeOnCycle ==
    /\ \A f \in {"topo_dfs", "topo_kahn"} :
          out[f].returned =>
              /\ out[f].is_none <=> HasCycle(graph)
              /\ ~out[f].is_none => EachOnce(out[f].val, V)
    /\ (out["topo_dfs"].returned /\ out["topo_kahn"].returned) =>
          (out["topo_dfs"].is_none <=> out["topo_kahn"].is_none)

\* Both sorts returned None on a graph whose only cycle is a self-loop, with
\* a vertex that lies on no cycle.
C3_Witness ==
    /\ pc = "done"
    /\ out["topo_dfs"].is_none
    /\ out["topo_kahn"].is_none
    /\ \E v \in V : v \in Succ(graph, v)
    /\ \A v \in V : OnCycle(graph, v) => v \in Succ(graph, v)
    /\ \E v \in V : ~OnCycle(graph, v) /\ Pred(graph, v) # {}

\* C4: on every graph (undirected or directed, connected or not)
\* bfs_all_components and dfs_all_components each return a sequence of
\* length n that contains every vertex index 0..n-1 exactly once.
C4_AllComponentsPermutation ==
    \A f \in {"bfs_all", "dfs_all"} :
        out[f].returned => EachOnce(out[f].val, V)

\* Both whole-graph traversals have returned on a disconnected directed graph
\* in which a later start vertex reaches an earlier one.
C4_Witness ==
    /\ pc = "done"
    /\ out["dfs_all"].returned
    /\ Component(graph, 0) # V
    /\ ~Symmetric(graph)
    /\ \E a, b \in V : a < b /\ a \in Succ(graph, b)

\* C5: in the output of bfs(graph, start, n) every vertex u discovered from v
\* (enqueued while v's neighbours are scanned) is placed strictly after v, and
\* positions are non-decreasing in shortest-path distance from start: every
\* vertex at distance k precedes every vertex at distance k+1.
C5_BfsLayering ==
    out["bfs"].returned =>
        LET o == out["bfs"].val
            d == Dist(graph, start)
        IN /\ \A u \in V :
                discovered_from[u] # -1 =>
                    /\ u \in Elems(o)
                    /\ discovered_from[u] \in Elems(o)
                    /\ Pos(o, discovered_from[u]) < Pos(o, u)
           /\ \A i, j \in 1 .. Len(o) : i < j => d[o[i]] <= d[o[j]]
           /\ \A i, j \in 1 .. Len(o) : d[o[j]] = d[o[i]] + 1 => i < j

\* bfs has returned on a graph with two vertices at distance 1 and one at
\* distance 2 that was discovered from the later of the two.
C5_Witness ==
    /\ out["bfs"].returned
    /\ LET o == out["bfs"].val
           d == Dist(graph, start)
       IN /\ Len(o) = 4
          /\ d[o[2]] = 1
          /\ d[o[3]] = 1
          /\ d[o[4]] = 2
          /\ discovered_from[o[4]] = o[3]

\* C6: dfs_iterative(graph, start, n) returns the same vertex sequence, in
\* the same order, that dfs_recursive appends from an all-false visited array
\* and an empty order, also when a vertex is pushed on the stack several
\* times before its first pop.
C6_IterativeEqualsRecursive ==
    (out["dfs_recursive"].returned /\ out["dfs_iterative"].returned) =>
        out["dfs_iterative"].val = out["dfs_recursive"].val

\* Both have returned on a graph where start lists a before w and a lists w:
\* w is pushed while scanning start and pushed again while scanning a, before
\* its first pop.
C6_Witness ==
    /\ pc = "done"
    /\ out["dfs_iterative"].returned
    /\ \E a, w \in V \ {start} :
          /\ a # w
          /\ w \in Succ(graph, a)
          /\ \E i, j \in 1 .. Len(graph[start]) :
                i < j /\ graph[start][i] = a /\ graph[start][j] = w

\* The single-source results bfs(graph, s, n) concatenated over the
\* components' smallest vertices s, taken in increasing order from s upwards.
RECURSIVE ConcatComponentBfs(_, _)
ConcatComponentBfs(g, s) ==
    IF s = n THEN <<>>
    ELSE (IF s = Min(Component(g, s)) THEN bfs_directed(g, s) ELSE <<>>)
         \o ConcatComponentBfs(g, s + 1)

\* C7: on an undirected graph (symmetric adjacency lists)
\* bfs_all_components(graph, n) equals the concatenation, over the connected
\* components in increasing order of their smallest vertex s, of
\* bfs(graph, s, n).
C7_AllEqualsConcatenation ==
    (Symmetric(graph) /\ out["bfs_all"].returned) =>
        out["bfs_all"].val = ConcatComponentBfs(graph, 0)

\* bfs_all_components has returned on an undirected graph with a component of
\* three vertices whose smallest vertex is an end of the path, and a second
\* component.
C7_Witness ==
    /\ out["bfs_all"].returned
    /\ Symmetric(graph)
    /\ \E v \in V :
          /\ Cardinality(Component(graph, v)) = 3
          /\ Cardinality(Succ(graph, Min(Component(graph, v)))) = 1
    /\ \E v \in V : Cardinality(Component(graph, v)) = 1

\* C8 as stated: the output of bfs_directed_all_reachable is grouped by
\* connected component (edges taken regardless of direction): each
\* component's vertices form one contiguous block and the blocks come in
\* increasing order of the component's smallest vertex.
C8_GroupedByComponent ==
    out["bfs_all"].returned =>
        LET o == out["bfs_all"].val
        IN /\ EachOnce(o, V)
           /\ \A a, b \in V :
                 Min(Component(graph, a)) < Min(Component(graph, b)) =>
                     Pos(o, a) < Pos(o, b)

\* The smallest-index vertex from which v is reachable along outgoing edges.
Owner(g, v) == Min({t \in V : v \in Reachable(g, t)})

\* C8 amended: the output of bfs_directed_all_reachable covers every vertex
\* once and is grouped by owner, the smallest-index vertex from which a vertex
\* is reachable along outgoing edges: the vertices of one owner form one
\* contiguous block that begins with the owner, and the blocks come in
\* increasing order of owner.
C8_GroupedByOwner ==
    out["bfs_all"].returned =>
        LET o == out["bfs_all"].val
        IN /\ EachOnce(o, V)
           /\ \A a, b \in V :
                 Owner(graph, a) < Owner(graph, b) => Pos(o, a) < Pos(o, b)
           /\ \A a \in V : Pos(o, Owner(graph, a)) <= Pos(o, a)

\* The whole-graph BFS has returned on a directed graph in which two vertices
\* of one connected component have different owners.
C8_Witness ==
    /\ out["bfs_all"].returned
    /\ \E a, b \in V :
          /\ Component(graph, a) = Component(graph, b)
          /\ Owner(graph, a) # Owner(graph, b)

\* topological_sort_kahn's work loop has ended (line 43 is false) and line 52
\* has not run yet.
KahnLoopEnded == pc = "kahn_while" /\ idx >= Len(queue)

Unprocessed == V \ Elems(result)

\* C9 as stated: when the work loop ends with fewer than n vertices
\* processed, the vertices never appended to result are exactly those that
\* lie on a directed cycle or depend solely on cyclic vertices (they have
\* incoming edges and every one of them comes from a vertex on a cycle or in
\* the stuck set).
C9_StuckDependSolely ==
    (KahnLoopEnded /\ Len(result) < n) =>
        Unprocessed =
            {v \in V :
                \/ OnCycle(graph, v)
                \/ /\ Pred(graph, v) # {}
                   /\ \A p \in Pred(graph, v) :
                         OnCycle(graph, p) \/ p \in Unprocessed}

\* C9 amended: when the work loop ends with fewer than n vertices processed,
\* the vertices never appended to result are exactly those that lie on a
\* directed cycle or are reachable from one (at least one, not every, of
\* their incoming edges comes from a vertex on a cycle or in the stuck set).
C9_StuckReachableFromCycle ==
    (KahnLoopEnded /\ Len(result) < n) =>
        /\ Unprocessed =
              {v \in V : \E c \in V : OnCycle(graph, c) /\ v \in Reachable(graph, c)}
        /\ \A v \in Unprocessed :
              \/ OnCycle(graph, v)
              \/ \E p \in Pred(graph, v) : OnCycle(graph, p) \/ p \in Unprocessed

\* The loop has ended short on a graph where a stuck vertex off every cycle
\* has one incoming edge from a cycle and another from a processed vertex.
C9_Witness ==
    /\ KahnLoopEnded
    /\ Len(result) < n
    /\ \E v \in Unprocessed :
          /\ ~OnCycle(graph, v)
          /\ \E p \in Pred(graph, v) : OnCycle(graph, p)
          /\ \E p \in Pred(graph, v) : p \in Elems(result)

\* topological_sort_dfs is running (lines 12-25).
InTopoDfs == pc \in {"topo_dfs_for", "topo_dfs_in"}

\* The vertices of the active calls of dfs: the current recursion path.
OnPath == {frames[i].v : i \in 1 .. Len(frames)}

\* A colour never moves backward (WHITE < GRAY < BLACK) while
\* topological_sort_dfs runs.
ColorNeverBackward == [][InTopoDfs => \A v \in V : color'[v] >= color[v]]_vars

BlackIffAppended ==
    InTopoDfs => \A v \in V : color[v] = BLACK <=> v \in Elems(result)

GrayIffOnPath ==
    InTopoDfs => \A v \in V : color[v] = GRAY <=> v \in OnPath

GrayIffOnPathUnlessFailing ==
    InTopoDfs =>
        /\ \A v \in OnPath : color[v] = GRAY
        /\ ~returning_false => \A v \in V : color[v] = GRAY => v \in OnPath

\* C10 as stated: at every step of topological_sort_dfs, also while a
\* detected cycle's failure travels up the recursion, a vertex's colour only
\* moves WHITE to GRAY to BLACK, a vertex is GRAY exactly when it is on the
\* current recursion path, and BLACK exactly when it has been appended to the
\* post-order result.
C10_AsStated == ColorNeverBackward /\ []GrayIffOnPath /\ []BlackIffAppended

\* C10 amended: at every step of topological_sort_dfs a vertex's colour only
\* moves WHITE to GRAY to BLACK, a vertex is BLACK exactly when it has been
\* appended to the post-order result, every vertex on the current recursion
\* path is GRAY, and every GRAY vertex is on the path as long as no failure
\* is travelling up; the calls that have returned False leave their vertices
\* GRAY.
C10_ColorConsistent ==
    ColorNeverBackward /\ []GrayIffOnPathUnlessFailing /\ []BlackIffAppended

\* A failure is travelling up with a call still active: the vertex of the
\* call that detected the cycle is GRAY and off the path, its caller's is GRAY
\* and on it, and some vertex is already BLACK.
C10_Witness ==
    /\ pc = "topo_dfs_in"
    /\ returning_false
    /\ frames # <<>>
    /\ \E v \in V : color[v] = GRAY /\ v \notin OnPath
    /\ \E v \in V : color[v] = BLACK

====
